---- MODULE Spec2Model ----
(***************************************************************************)
(* A model of util/schema-index (src/util/schema-index/src/main.rs): the   *)
(* tool that walks the history of a Git repository to date every schema    *)
(* document found under a directory, optionally appends the TOML schemas   *)
(* of the schemastore.org catalog, and writes the index as one JSON file.  *)
(*                                                                         *)
(* Text (String, OsStr) is a sequence of one-character strings; a path is  *)
(* a sequence of components, each of them text.                            *)
(***************************************************************************)
EXTENDS Integers, Sequences, FiniteSets, TLC

VARIABLES
    commits,       \* the object database: commit i has a time and a tree, its parent is i-1
    disk,          \* the paths of the regular files of the working directory
    malformed,     \* the files of the disk whose content is not a schema document
    net,           \* the catalog endpoint: whether line 164 gets its catalog, and the catalog
    opt_url,       \* opt.url
    schema_store,  \* opt.schema_store
    pc,            \* the position of main
    revs,          \* the commits the revwalk has still to yield
    visited,       \* the commits the revwalk has yielded, in order
    cur,           \* the commit of the running iteration of the for loop (0: none)
    pos,           \* the position of the tree walk in the entries of cur's tree
    files,         \* the HashSet of candidate paths not found in a tree yet
    index,         \* index.schemas
    resolved,      \* for the k-th push of the tree walk: the path and the commit of it
    panicked,      \* whether git2 holds a panic of the callback of a tree walk
    stdout,        \* whether line 153 has printed the fetch error
    out,           \* the output file: <<>> while it does not exist, else <<its content>>
    exit           \* the exit of the process: "running", "ok", "error", "panic"

vars == <<commits, disk, malformed, net, opt_url, schema_store, pc, revs, visited,
          cur, pos, files, index, resolved, panicked, stdout, out, exit>>

(***************************************************************************)
(* Bounds of the model.                                                    *)
(***************************************************************************)
MaxCommits == 2
MaxCatalog == 2
MaxGlobLen == 3

(***************************************************************************)
(* Text.                                                                   *)
(***************************************************************************)
None == [some |-> FALSE]
Some(v) == [some |-> TRUE, val |-> v]

\* str::ends_with
EndsWith(s, suf) ==
    /\ Len(suf) <= Len(s)
    /\ SubSeq(s, Len(s) - Len(suf) + 1, Len(s)) = suf

\* str::starts_with
StartsWith(s, pre) ==
    /\ Len(pre) <= Len(s)
    /\ SubSeq(s, 1, Len(pre)) = pre

\* str::strip_suffix
StripSuffix(s, suf) ==
    IF EndsWith(s, suf) THEN Some(SubSeq(s, 1, Len(s) - Len(suf))) ELSE None

\* str::strip_prefix
StripPrefix(s, pre) ==
    IF StartsWith(s, pre) THEN Some(SubSeq(s, Len(pre) + 1, Len(s))) ELSE None

\* Option::unwrap_or
UnwrapOr(o, d) == IF o.some THEN o.val ELSE d

\* str::trim_end_matches: the suffix is removed as often as it matches.
RECURSIVE TrimEndMatches(_, _)
TrimEndMatches(s, pat) ==
    IF pat # <<>> /\ EndsWith(s, pat)
    THEN TrimEndMatches(SubSeq(s, 1, Len(s) - Len(pat)), pat)
    ELSE s

\* str::contains(char)
Contains(s, ch) == \E i \in 1..Len(s) : s[i] = ch

\* The concatenation of a sequence of texts.
RECURSIVE Concat(_)
Concat(ss) == IF ss = <<>> THEN <<>> ELSE Head(ss) \o Concat(Tail(ss))

DotToml == <<".", "t", "o", "m", "l">>
Json == <<"j", "s", "o", "n">>

(***************************************************************************)
(* Paths.                                                                  *)
(***************************************************************************)
CurDir == <<".">>
ParentDir == <<".", ".">>

\* PathClean::clean on a relative path: "." is dropped, ".." takes back the
\* component before it (and stays when there is none).
RECURSIVE CleanFrom(_, _)
CleanFrom(done, rest) ==
    IF rest = <<>> THEN done
    ELSE LET c == Head(rest) IN
         IF c = CurDir THEN CleanFrom(done, Tail(rest))
         ELSE IF c = ParentDir /\ done # <<>> /\ done[Len(done)] # ParentDir
              THEN CleanFrom(SubSeq(done, 1, Len(done) - 1), Tail(rest))
              ELSE CleanFrom(Append(done, c), Tail(rest))

Clean(p) ==
    LET cleaned == CleanFrom(<<>>, p)
    IN  IF cleaned = <<>> THEN <<CurDir>> ELSE cleaned

\* Path::extension of a path: what follows the last dot of the file name, none
\* when the name has no dot or only a leading one.
LastDot(name) ==
    IF Contains(name, ".")
    THEN CHOOSE i \in 1..Len(name) :
            /\ name[i] = "."
            /\ \A j \in (i+1)..Len(name) : name[j] # "."
    ELSE 0

Extension(p) ==
    IF p = <<>> THEN None
    ELSE LET name == p[Len(p)]
             d == LastDot(name)
         IN  IF name = ParentDir \/ d <= 1 THEN None
             ELSE Some(SubSeq(name, d + 1, Len(name)))

\* opt.git (the default) and DIR.
opt_git == <<CurDir>>
opt_dir == << <<"s">> >>

\* The paths of the model, relative to the repository.
FileA == << <<"s">>, <<"a", ".", "j", "s", "o", "n">> >>
FileB == << <<"s">>, <<"b", ".", "j", "s", "o", "n">> >>
FileTA == << <<"s">>, <<"t">>, <<"a", ".", "j", "s", "o", "n">> >>
FileN == << <<"s">>, <<"n", ".", "m", "d">> >>
DirT == << <<"s">>, <<"t">> >>
DirS == << <<"s">> >>

SchemaFiles == {FileA, FileB, FileTA}

\* The directories of a set of file paths.
DirsOf(fs) == UNION { { SubSeq(p, 1, k) : k \in 1..(Len(p) - 1) } : p \in fs }

\* WalkDir::new(root): every entry of the disk at or below root, its path
\* prefixed by root as given.
WalkDir(root) ==
    LET base == Clean(root)
        all == disk \cup DirsOf(disk)
    IN  { root \o SubSeq(p, Len(base) + 1, Len(p)) : p \in { q \in all : StartsWith(q, base) } }

\* Lines 76-87: the candidate files.
Candidates ==
    { Clean(p) : p \in { q \in WalkDir(opt_git \o opt_dir) : Extension(q) = Some(Json) } }

(***************************************************************************)
(* Commits, the revwalk and the tree walk.                                 *)
(***************************************************************************)
\* The commits reachable from c by parent links.
RECURSIVE Reachable(_)
Reachable(c) == IF c = 0 THEN {} ELSE {c} \cup Reachable(commits[c].parent)

\* revs.push_head(): HEAD is the last commit.
PushHead == Reachable(Len(commits))

\* Sort::TIME: the revwalk yields a commit whose commit time no commit still
\* to yield exceeds; commits of the same time come in either order.
IsNextRev_oldest(c, remaining) ==
    c \in remaining /\ \A d \in remaining : commits[d].seconds >= commits[c].seconds

IsNextRev(c, remaining) ==
    c \in remaining /\ \A d \in remaining : commits[d].seconds <= commits[c].seconds

\* Line 100.
TimeUnix(time) == time.seconds + (time.offset_minutes * 60)

\* The entries of a tree in the order of TreeWalkMode::PostOrder: the entries
\* of a directory by name, those of a subdirectory before the subdirectory.
TreeOrder == <<FileA, FileB, FileTA, DirT, DirS>>

InTree(tree, p) == p \in tree \/ \E f \in tree : StartsWith(f, p)

RECURSIVE SelectIn(_, _)
SelectIn(tree, order) ==
    IF order = <<>> THEN <<>>
    ELSE IF InTree(tree, Head(order))
         THEN <<Head(order)>> \o SelectIn(tree, Tail(order))
         ELSE SelectIn(tree, Tail(order))

\* What the callback is given for each entry: the directory and the name.
TreeEntries(tree) ==
    LET ps == SelectIn(tree, TreeOrder)
    IN  [k \in 1..Len(ps) |->
            [dir |-> SubSeq(ps[k], 1, Len(ps[k]) - 1), name |-> ps[k][Len(ps[k])]]]

\* Line 107.
EntryPath(e) == Clean(opt_git \o e.dir \o <<e.name>>)

(***************************************************************************)
(* The entry of a schema document.                                         *)
(***************************************************************************)
DigitChar == <<"0", "1", "2", "3", "4", "5", "6", "7", "8", "9">>
Digit(n) == DigitChar[n + 1]
Pad2(n) == <<Digit((n \div 10) % 10), Digit(n % 10)>>
Pad4(n) == Pad2(n \div 100) \o Pad2(n % 100)

\* OffsetDateTime::from_unix_timestamp: the UTC date and time of day of a
\* number of seconds since the epoch.
CivilFromUnix(t) ==
    LET days == t \div 86400
        sod  == t % 86400
        z    == days + 719468
        era  == z \div 146097
        doe  == z - era * 146097
        yoe  == (doe - doe \div 1460 + doe \div 36524 - doe \div 146096) \div 365
        doy  == doe - (365 * yoe + yoe \div 4 - yoe \div 100)
        mp   == (5 * doy + 2) \div 153
        d    == doy - (153 * mp + 2) \div 5 + 1
        m    == IF mp < 10 THEN mp + 3 ELSE mp - 9
        y    == yoe + era * 400 + (IF m <= 2 THEN 1 ELSE 0)
    IN  [year |-> y, month |-> m, day |-> d,
         hour |-> sod \div 3600, minute |-> (sod % 3600) \div 60, second |-> sod % 60]

\* format(Format::Rfc3339) of a UTC date-time.
Rfc3339(t) ==
    LET c == CivilFromUnix(t)
    IN  Pad4(c.year) \o <<"-">> \o Pad2(c.month) \o <<"-">> \o Pad2(c.day) \o <<"T">>
        \o Pad2(c.hour) \o <<":">> \o Pad2(c.minute) \o <<":">> \o Pad2(c.second)
        \o <<"+", "0", "0", ":", "0", "0">>

\* Line 68.
TrimUrl(u) == TrimEndMatches(u, <<"/">>)

\* Line 118.
LocalUrl(base, name) == base \o <<"/">> \o name

\* Lines 120-122 and 173-175: the digest is not computed, it is named by its input.
Sha256Hex(u) == <<"sha256", u>>

\* Lines 109-116 on a well-formed document: its fields are named by where
\* they are read.
ReadSchema(fpath) ==
    [title |-> <<"title of", fpath>>, description |-> <<"description of", fpath>>,
     extra |-> [authors |-> <<>>, patterns |-> <<>>]]

\* Lines 124-134.
LocalMeta(fpath, name, time_unix) ==
    LET s == ReadSchema(fpath)
        url == LocalUrl(opt_url, name)
    IN  [title |-> s.title, description |-> s.description,
         updated |-> Rfc3339(time_unix), url |-> url, url_hash |-> Sha256Hex(url),
         extra |-> s.extra]

(***************************************************************************)
(* main.                                                                   *)
(***************************************************************************)
\* HashSet::remove, line 108: what is left of the set.
RemoveFile(fs, p) == fs \ {p}

\* Lines 138-142: what the callback returns.
WalkResult_always(fs) == "Abort"

WalkResult(fs) == IF fs = {} THEN "Abort" ELSE "Ok"

\* Line 147, negated.
AllCommitted(fs) == fs = {}

\* Where main goes on after the callback: Tree::walk ends at Abort and after
\* the last entry, and returns Ok in both cases.
AfterEntry(fs, n) ==
    IF WalkResult(fs) = "Abort" \/ pos = n THEN [pc |-> "revwalk", pos |-> 0]
    ELSE [pc |-> "treewalk", pos |-> pos + 1]

\* Lines 66-89.
Start ==
    /\ pc = "start"
    /\ opt_url' = TrimUrl(opt_url)
    /\ revs' = PushHead
    /\ files' = Candidates
    /\ index' = <<>>
    /\ pc' = "revwalk"
    /\ UNCHANGED <<commits, disk, malformed, net, schema_store, visited, cur, pos,
                   resolved, panicked, stdout, out, exit>>

\* Lines 91-105: the next commit of the revwalk and the start of its tree walk.
\* While git2 holds a panic it runs no callback: the walk of the tree ends at
\* its first entry and Tree::walk returns Ok.
RevNext ==
    /\ pc = "revwalk"
    /\ \E c \in revs :
          /\ IsNextRev(c, revs)
          /\ revs' = revs \ {c}
          /\ visited' = Append(visited, c)
          /\ cur' = c
          /\ IF TreeEntries(commits[c].tree) = <<>> \/ panicked
             THEN pc' = "revwalk" /\ pos' = 0
             ELSE pc' = "treewalk" /\ pos' = 1
    /\ UNCHANGED <<commits, disk, malformed, net, opt_url, schema_store, files, index,
                   resolved, panicked, stdout, out, exit>>

\* Lines 105-142, an entry that is no pending candidate.
WalkSkip ==
    /\ pc = "treewalk"
    /\ LET entries == TreeEntries(commits[cur].tree)
           fpath == EntryPath(entries[pos])
           next == AfterEntry(files, Len(entries))
       IN  /\ fpath \notin files
           /\ pc' = next.pc
           /\ pos' = next.pos
    /\ UNCHANGED <<commits, disk, malformed, net, opt_url, schema_store, revs, visited,
                   cur, files, index, resolved, panicked, stdout, out, exit>>

\* Lines 105-142, a pending candidate whose document parses.
WalkResolve ==
    /\ pc = "treewalk"
    /\ LET entries == TreeEntries(commits[cur].tree)
           e == entries[pos]
           fpath == EntryPath(e)
           left == RemoveFile(files, fpath)
           next == AfterEntry(left, Len(entries))
       IN  /\ fpath \in files
           /\ fpath \notin malformed
           /\ files' = left
           /\ index' = Append(index, LocalMeta(fpath, e.name, TimeUnix(commits[cur])))
           /\ resolved' = Append(resolved, [path |-> fpath, commit |-> cur])
           /\ pc' = next.pc
           /\ pos' = next.pos
    /\ UNCHANGED <<commits, disk, malformed, net, opt_url, schema_store, revs, visited,
                   cur, panicked, stdout, out, exit>>

\* What becomes of the panic of line 114, raised in a callback that libgit2
\* calls: git2 catches it at the callback, which then answers the walk with
\* an error, or, in a build whose panics abort, the process ends.
PanicOutcomes == {"caught", "abort"}

\* Lines 108-116, a pending candidate whose document does not parse: the path
\* has left the set (line 108) and nothing is pushed. A panic that is caught
\* ends the walk of this tree, Tree::walk returns Ok and main goes on with the
\* next commit.
WalkInvalidSchema ==
    /\ pc = "treewalk"
    /\ LET fpath == EntryPath(TreeEntries(commits[cur].tree)[pos])
       IN  /\ fpath \in files
           /\ fpath \in malformed
           /\ files' = RemoveFile(files, fpath)
    /\ \E outcome \in PanicOutcomes :
          IF outcome = "caught"
          THEN /\ panicked' = TRUE
               /\ pc' = "revwalk"
               /\ pos' = 0
               /\ exit' = exit
          ELSE /\ panicked' = panicked
               /\ pc' = "done"
               /\ pos' = pos
               /\ exit' = "panic"
    /\ UNCHANGED <<commits, disk, malformed, net, opt_url, schema_store, revs, visited,
                   cur, index, resolved, stdout, out>>

\* Lines 147-149.
NotCommitted ==
    /\ pc = "revwalk"
    /\ revs = {}
    /\ ~AllCommitted(files)
    /\ pc' = "done"
    /\ exit' = "error"
    /\ UNCHANGED <<commits, disk, malformed, net, opt_url, schema_store, revs, visited,
                   cur, pos, files, index, resolved, panicked, stdout, out>>

(***************************************************************************)
(* Glob::new and Glob::regex, as fetch_schema_store uses them (lines 180    *)
(* and 202-211), for globs over GlobChars: no braces, commas or dashes, so  *)
(* no alternation and no range of more than one character.                  *)
(***************************************************************************)
GlobChars == {"f", "/", "*", "?", "\\", "[", "]"}

IsSeparator(c) == c = "/"

Literal(c) == [t |-> "Literal", c |-> c]
Tok(t) == [t |-> t]

\* The class that opens before position j: its characters up to the closing
\* bracket, a bracket that comes first being a character of the class.
RECURSIVE ParseClassFrom(_, _, _, _)
ParseClassFrom(g, j, first, ranges) ==
    IF j > Len(g) THEN [ok |-> FALSE]
    ELSE IF g[j] = "]" /\ ~first THEN [ok |-> TRUE, ranges |-> ranges, next |-> j + 1]
    ELSE ParseClassFrom(g, j + 1, FALSE, Append(ranges, g[j]))

ParseClass(g, j) ==
    LET negated == j <= Len(g) /\ g[j] \in {"!", "^"}
        r == ParseClassFrom(g, IF negated THEN j + 1 ELSE j, TRUE, <<>>)
    IN  IF r.ok
        THEN [ok |-> TRUE, next |-> r.next,
              tok |-> [t |-> "Class", negated |-> negated, ranges |-> r.ranges]]
        ELSE [ok |-> FALSE]

\* Parser::parse_star at the star of position i: the tokens after it and the
\* position of the next character.
ParseStar(g, i, toks) ==
    LET peek(k) == IF k <= Len(g) THEN Some(g[k]) ELSE None
        two == toks \o <<Tok("ZeroOrMore"), Tok("ZeroOrMore")>>
        prevSep == i > 1 /\ IsSeparator(g[i - 1])
        last == toks[Len(toks)]
        front == SubSeq(toks, 1, Len(toks) - 1)
        recursive(isSuffix) ==
            IF last.t \in {"RecursivePrefix", "RecursiveSuffix"} THEN toks
            ELSE IF isSuffix THEN Append(front, Tok("RecursiveSuffix"))
            ELSE Append(front, Tok("RecursiveZeroOrMore"))
    IN  IF peek(i + 1) # Some("*")
        THEN [toks |-> Append(toks, Tok("ZeroOrMore")), next |-> i + 1]
        ELSE IF toks = <<>>
        THEN IF peek(i + 2).some /\ ~IsSeparator(peek(i + 2).val)
             THEN [toks |-> two, next |-> i + 2]
             ELSE [toks |-> <<Tok("RecursivePrefix")>>, next |-> i + 3]
        ELSE IF ~prevSep THEN [toks |-> two, next |-> i + 2]
        ELSE IF ~peek(i + 2).some THEN [toks |-> recursive(TRUE), next |-> i + 2]
        ELSE IF IsSeparator(peek(i + 2).val) THEN [toks |-> recursive(FALSE), next |-> i + 3]
        ELSE [toks |-> two, next |-> i + 2]

\* Parser::parse from position i on.
RECURSIVE ParseFrom(_, _, _)
ParseFrom(g, i, toks) ==
    IF i > Len(g) THEN [ok |-> TRUE, tokens |-> toks]
    ELSE LET c == g[i] IN
         CASE c = "?" -> ParseFrom(g, i + 1, Append(toks, Tok("Any")))
           [] c = "*" -> LET r == ParseStar(g, i, toks) IN ParseFrom(g, r.next, r.toks)
           [] c = "[" -> LET r == ParseClass(g, i + 1)
                         IN  IF r.ok THEN ParseFrom(g, r.next, Append(toks, r.tok))
                             ELSE [ok |-> FALSE]
           [] c = "\\" -> IF i = Len(g) THEN [ok |-> FALSE]
                          ELSE ParseFrom(g, i + 2, Append(toks, Literal(g[i + 1])))
           [] OTHER -> ParseFrom(g, i + 1, Append(toks, Literal(c)))

\* Glob::new: the tokens of a glob, or the error of a class that is not closed
\* or of a backslash that ends the glob.
GlobNew(g) == ParseFrom(g, 1, <<>>)

\* regex::escape of a character.
RegexMeta ==
    {"\\", ".", "+", "*", "?", "(", ")", "|", "[", "]", "{", "}", "^", "$", "#", "&", "-", "~"}

CharToEscapedLiteral(c) == IF c \in RegexMeta THEN <<"\\", c>> ELSE <<c>>

\* The regular expression of one token (literal_separator is off).
TokenToRegex(tok) ==
    CASE tok.t = "Literal" -> CharToEscapedLiteral(tok.c)
      [] tok.t = "Any" -> <<".">>
      [] tok.t = "ZeroOrMore" -> <<".", "*">>
      [] tok.t = "RecursivePrefix" -> <<"(", "?", ":", "/", "?", "|", ".", "*", "/", ")">>
      [] tok.t = "RecursiveSuffix" -> <<"/", ".", "*">>
      [] tok.t = "RecursiveZeroOrMore" -> <<"(", "?", ":", "/", "|", "/", ".", "*", "/", ")">>
      [] tok.t = "Class" ->
            <<"[">> \o (IF tok.negated THEN <<"^">> ELSE <<>>)
            \o Concat([k \in 1..Len(tok.ranges) |-> CharToEscapedLiteral(tok.ranges[k])])
            \o <<"]">>

RegexPrefix == <<"(", "?", "-", "u", ")", "^">>

\* Glob::regex of the tokens of a glob.
GlobRegex(toks) ==
    IF toks = <<Tok("RecursivePrefix")>> THEN RegexPrefix \o <<".", "*", "$">>
    ELSE RegexPrefix \o Concat([k \in 1..Len(toks) |-> TokenToRegex(toks[k])]) \o <<"$">>

(***************************************************************************)
(* fetch_schema_store.                                                     *)
(***************************************************************************)
\* Lines 204-209.
StripAnchors(re) ==
    UnwrapOr(StripPrefix(UnwrapOr(StripSuffix(re, <<"$">>), re), RegexPrefix), re)

\* Line 211.
IsSuffixBranch_any(regex) == Contains(regex, "*") \/ Contains(regex, ".")

IsSuffixBranch(regex) == Contains(regex, "*")

\* Line 212.
SuffixPattern(re) == re \o <<"\\", ".", "t", "o", "m", "l", "$">>

\* Line 214.
AnchoredPattern(re) ==
    <<"^", "(", ".", "*", "(", "/", "|", "\\", ")">> \o re
    \o <<"\\", ".", "t", "o", "m", "l", "|">> \o re
    \o <<"\\", ".", "t", "o", "m", "l", ")", "$">>

\* Lines 201-216: the pattern of a compiled glob.
Pattern(toks) ==
    LET regex == GlobRegex(toks)
        re == StripAnchors(regex)
    IN  IF IsSuffixBranch(regex) THEN SuffixPattern(re) ELSE AnchoredPattern(re)

\* Lines 179-188: the globs of the file matches that end in .toml and compile.
RECURSIVE Globs(_)
Globs(file_match) ==
    IF file_match = <<>> THEN <<>>
    ELSE LET fm == Head(file_match)
             g == GlobNew(TrimEndMatches(fm, DotToml))
         IN  IF EndsWith(fm, DotToml) /\ g.ok
             THEN <<g.tokens>> \o Globs(Tail(file_match))
             ELSE Globs(Tail(file_match))

\* Line 169, negated.
IsTomlSchema_first(schema) ==
    schema.file_match # <<>> /\ EndsWith(schema.file_match[1], DotToml)

IsTomlSchema(schema) ==
    \E k \in 1..Len(schema.file_match) : EndsWith(schema.file_match[k], DotToml)

Provenance == <<"automatically included from https://schemastore.org">>

\* Lines 173-220. The time of the run is not modelled: updated is "now".
RemoteMeta(schema) ==
    LET globs == Globs(schema.file_match)
    IN  [title |-> schema.name, description |-> schema.description,
         updated |-> <<"now">>, url |-> schema.url, url_hash |-> Sha256Hex(schema.url),
         extra |-> [authors |-> Provenance,
                    patterns |-> [k \in 1..Len(globs) |-> Pattern(globs[k])]]]

\* Lines 168-223: the index after the loop over the schemas of the catalog.
RECURSIVE PushCatalog(_, _)
PushCatalog(idx, schemas) ==
    IF schemas = <<>> THEN idx
    ELSE IF IsTomlSchema(Head(schemas))
         THEN PushCatalog(Append(idx, RemoteMeta(Head(schemas))), Tail(schemas))
         ELSE PushCatalog(idx, Tail(schemas))

\* Lines 162-226: the result and the index of it. The request or the parse
\* of line 164 fails before the index is touched.
FetchSchemaStore_partial(idx) ==
    IF net.ok THEN [ok |-> TRUE, index |-> PushCatalog(idx, net.schemas)]
    ELSE [ok |-> FALSE, index |-> PushCatalog(idx, net.schemas)]

FetchSchemaStore(idx) ==
    IF net.ok THEN [ok |-> TRUE, index |-> PushCatalog(idx, net.schemas)]
    ELSE [ok |-> FALSE, index |-> idx]

\* Lines 151-155 with the flag off.
SkipSchemaStore ==
    /\ pc = "revwalk"
    /\ revs = {}
    /\ AllCommitted(files)
    /\ ~schema_store
    /\ pc' = "write"
    /\ UNCHANGED <<commits, disk, malformed, net, opt_url, schema_store, revs, visited,
                   cur, pos, files, index, resolved, panicked, stdout, out, exit>>

\* Lines 151-155 with the flag on, the fetch succeeding.
FetchOk ==
    /\ pc = "revwalk"
    /\ revs = {}
    /\ AllCommitted(files)
    /\ schema_store
    /\ LET r == FetchSchemaStore(index)
       IN  /\ r.ok
           /\ index' = r.index
    /\ pc' = "write"
    /\ UNCHANGED <<commits, disk, malformed, net, opt_url, schema_store, revs, visited,
                   cur, pos, files, resolved, panicked, stdout, out, exit>>

\* Lines 151-155 with the flag on, the fetch failing: the error is printed.
FetchErr ==
    /\ pc = "revwalk"
    /\ revs = {}
    /\ AllCommitted(files)
    /\ schema_store
    /\ LET r == FetchSchemaStore(index)
       IN  /\ ~r.ok
           /\ index' = r.index
    /\ stdout' = TRUE
    /\ pc' = "write"
    /\ UNCHANGED <<commits, disk, malformed, net, opt_url, schema_store, revs, visited,
                   cur, pos, files, resolved, panicked, out, exit>>

\* Lines 157-159.
WriteOutput ==
    /\ pc = "write"
    /\ out' = <<index>>
    /\ pc' = "done"
    /\ exit' = "ok"
    /\ UNCHANGED <<commits, disk, malformed, net, opt_url, schema_store, revs, visited,
                   cur, pos, files, index, resolved, panicked, stdout>>

(***************************************************************************)
(* The runs of the model: a repository, a working directory, the options   *)
(* and the answer of the catalog endpoint.                                 *)
(***************************************************************************)
\* Commit times: the same second in two time zones, and a minute later.
TimeChoices ==
    { [seconds |-> 1600041540, offset_minutes |-> 0],
      [seconds |-> 1600041540, offset_minutes |-> 60],
      [seconds |-> 1600041600, offset_minutes |-> 0] }

\* The histories of n commits, each with any time and any tree of schema files.
Histories(n) ==
    { [i \in 1..n |-> [seconds |-> ts[i].seconds, offset_minutes |-> ts[i].offset_minutes,
                       tree |-> trs[i], parent |-> i - 1]] :
        ts \in [1..n -> TimeChoices], trs \in [1..n -> SUBSET SchemaFiles] }

\* The schema files of the working directory, and those of them that are
\* not well-formed.
DiskChoices ==
    { [files |-> SchemaFiles, malformed |-> {}],
      [files |-> SchemaFiles, malformed |-> {FileB}],
      [files |-> SchemaFiles, malformed |-> {FileTA}],
      [files |-> {FileA, FileTA}, malformed |-> {}],
      [files |-> {}, malformed |-> {}] }

UrlChoices == { <<"u">>, <<"u", "/">>, <<"u", "/", "/">> }

NoCatalog == [ok |-> FALSE, schemas |-> <<>>]

\* Texts over a set of characters, up to a length.
Texts(chars, n) == UNION { [1..k -> chars] : k \in 0..n }

FileMatchChoices ==
    { <<>>,
      << <<"a", ".", "j", "s", "o", "n">> >>,
      << <<"*", ".", "t", "o", "m", "l">> >>,
      << <<"[", ".", "t", "o", "m", "l">> >>,
      << <<"f", ".", "t", "o", "m", "l">>, <<"[", ".", "t", "o", "m", "l">> >>,
      << <<"f", ".", "j", "s", "o", "n">>, <<"f", "/", "f", ".", "t", "o", "m", "l">>,
         <<"?", ".", "t", "o", "m", "l", ".", "t", "o", "m", "l">> >> }

CatalogSchemas ==
    { [name |-> Some(<<"n">>), description |-> None, url |-> u, file_match |-> fm] :
        u \in { <<"v">>, <<"w">> }, fm \in FileMatchChoices }

Catalogs == UNION { [1..k -> CatalogSchemas] : k \in 0..MaxCatalog }

\* The globs of the catalogs of one schema with one file match.
FooBar == <<"f", "o", "o", "/", "b", "a", "r">>

GlobInputs == Texts(GlobChars, MaxGlobLen) \cup {FooBar}

GlobCatalogs ==
    { << [name |-> None, description |-> None, url |-> <<"v">>,
          file_match |-> <<g \o DotToml>>] >> : g \in GlobInputs }

InitMain ==
    /\ pc = "start"
    /\ revs = {}
    /\ visited = <<>>
    /\ cur = 0
    /\ pos = 0
    /\ files = {}
    /\ index = <<>>
    /\ resolved = <<>>
    /\ panicked = FALSE
    /\ stdout = FALSE
    /\ out = <<>>
    /\ exit = "running"

\* Any history and working directory, the catalog not asked for.
InitHistory ==
    /\ commits \in UNION { Histories(n) : n \in 1..MaxCommits }
    /\ \E d \in DiskChoices :
          /\ disk = d.files \cup {FileN}
          /\ malformed = d.malformed
    /\ opt_url = <<"u">>
    /\ schema_store = FALSE
    /\ net = NoCatalog

\* One commit of two schema files, and any catalog, served or not.
InitCatalog ==
    /\ commits \in { h \in Histories(1) :
                        /\ h[1].tree = {FileA, FileB}
                        /\ h[1].offset_minutes = 0
                        /\ \A t \in TimeChoices : h[1].seconds <= t.seconds }
    /\ disk = {FileA, FileB, FileN}
    /\ malformed = {}
    /\ opt_url \in UrlChoices
    /\ schema_store = TRUE
    /\ net \in { [ok |-> b, schemas |-> c] : b \in BOOLEAN, c \in Catalogs }
               \cup { [ok |-> TRUE, schemas |-> c] : c \in GlobCatalogs }

Init == InitMain /\ (InitHistory \/ InitCatalog)

Next ==
    \/ Start
    \/ RevNext
    \/ WalkSkip
    \/ WalkResolve
    \/ WalkInvalidSchema
    \/ NotCommitted
    \/ SkipSchemaStore
    \/ FetchOk
    \/ FetchErr
    \/ WriteOutput

Spec == Init /\ [][Next]_vars

(***************************************************************************)
(* What a pattern means to the consumer of the index: a regular expression *)
(* that is searched for in a path. Literals, escapes, the dot, classes,    *)
(* groups, alternation, the anchors and the postfix star and question mark *)
(* are read; a pattern that does not parse matches nothing.                *)
(* An operator is given the pattern r, the subject s, a position i of r    *)
(* and the set S of the positions of s a match may have reached before i,  *)
(* and tells the position after what it read and the positions reached.    *)
(***************************************************************************)
RegexFail == [ok |-> FALSE, next |-> 0, ends |-> {}]

Step(s, S, accepts(_)) == { q + 1 : q \in { x \in S : x < Len(s) /\ accepts(s[x + 1]) } }

\* The class that opens at position i: its members up to the closing bracket.
RECURSIVE RegexClassFrom(_, _, _)
RegexClassFrom(r, j, members) ==
    IF j > Len(r) THEN [ok |-> FALSE]
    ELSE IF r[j] = "]" THEN [ok |-> TRUE, next |-> j + 1, members |-> members]
    ELSE IF r[j] = "\\"
         THEN IF j = Len(r) THEN [ok |-> FALSE]
              ELSE RegexClassFrom(r, j + 2, members \cup {r[j + 1]})
    ELSE RegexClassFrom(r, j + 1, members \cup {r[j]})

RECURSIVE RegexAlt(_, _, _, _), RegexSeq(_, _, _, _), RegexRep(_, _, _, _),
          RegexAtom(_, _, _, _), RegexStar(_, _, _, _)

RegexAtom(r, s, i, S) ==
    LET c == r[i] IN
    CASE c = "(" ->
            LET j == IF i + 2 <= Len(r) /\ r[i + 1] = "?" /\ r[i + 2] = ":"
                     THEN i + 3 ELSE i + 1
                inner == RegexAlt(r, s, j, S)
            IN  IF inner.ok /\ inner.next <= Len(r) /\ r[inner.next] = ")"
                   /\ ~(j = i + 1 /\ j <= Len(r) /\ r[j] = "?")
                THEN [ok |-> TRUE, next |-> inner.next + 1, ends |-> inner.ends]
                ELSE RegexFail
      [] c = "[" ->
            LET negated == i < Len(r) /\ r[i + 1] = "^"
                cl == RegexClassFrom(r, IF negated THEN i + 2 ELSE i + 1, {})
            IN  IF cl.ok
                THEN LET accepts(x) == (x \in cl.members) # negated
                     IN  [ok |-> TRUE, next |-> cl.next, ends |-> Step(s, S, accepts)]
                ELSE RegexFail
      [] c = "\\" ->
            IF i = Len(r) THEN RegexFail
            ELSE LET accepts(x) == x = r[i + 1]
                 IN  [ok |-> TRUE, next |-> i + 2, ends |-> Step(s, S, accepts)]
      [] c = "." ->
            LET accepts(x) == TRUE
            IN  [ok |-> TRUE, next |-> i + 1, ends |-> Step(s, S, accepts)]
      [] c = "^" -> [ok |-> TRUE, next |-> i + 1, ends |-> S \cap {0}]
      [] c = "$" -> [ok |-> TRUE, next |-> i + 1, ends |-> S \cap {Len(s)}]
      [] c \in {"*", "?", "+", "{", "}", "]"} -> RegexFail
      [] OTHER ->
            LET accepts(x) == x = c
            IN  [ok |-> TRUE, next |-> i + 1, ends |-> Step(s, S, accepts)]

\* The positions any number of repetitions of the atom at i reach from S.
RegexStar(r, s, i, S) ==
    LET more == S \cup RegexAtom(r, s, i, S).ends
    IN  IF more = S THEN S ELSE RegexStar(r, s, i, more)

\* The position after the postfix operators that start at k.
RECURSIVE RegexRepEnd(_, _)
RegexRepEnd(r, k) ==
    IF k <= Len(r) /\ r[k] \in {"*", "?"} THEN RegexRepEnd(r, k + 1) ELSE k

RegexRep(r, s, i, S) ==
    LET a == RegexAtom(r, s, i, S)
        e == RegexRepEnd(r, a.next)
    IN  IF ~a.ok THEN RegexFail
        ELSE IF e = a.next THEN a
        ELSE IF Contains(SubSeq(r, a.next, e - 1), "*")
             THEN [ok |-> TRUE, next |-> e, ends |-> RegexStar(r, s, i, S)]
        ELSE [ok |-> TRUE, next |-> e, ends |-> S \cup a.ends]

RegexSeq(r, s, i, S) ==
    IF i > Len(r) \/ r[i] \in {"|", ")"} THEN [ok |-> TRUE, next |-> i, ends |-> S]
    ELSE LET a == RegexRep(r, s, i, S)
         IN  IF a.ok THEN RegexSeq(r, s, a.next, a.ends) ELSE RegexFail

RegexAlt(r, s, i, S) ==
    LET b == RegexSeq(r, s, i, S) IN
    IF ~b.ok THEN RegexFail
    ELSE IF b.next <= Len(r) /\ r[b.next] = "|"
         THEN LET rest == RegexAlt(r, s, b.next + 1, S)
              IN  IF rest.ok
                  THEN [ok |-> TRUE, next |-> rest.next, ends |-> b.ends \cup rest.ends]
                  ELSE RegexFail
    ELSE b

\* The pattern parses: every group is closed and nothing is left over.
RegexWellFormed(r) ==
    LET top == RegexAlt(r, <<>>, 1, {0})
    IN  top.ok /\ top.next = Len(r) + 1

\* The pattern is found in the subject.
RegexIsMatch(r, s) ==
    LET top == RegexAlt(r, s, 1, 0..Len(s))
    IN  top.ok /\ top.next = Len(r) + 1 /\ top.ends # {}

(***************************************************************************)
(* The properties.                                                         *)
(***************************************************************************)
FileName(p) == p[Len(p)]

\* The entries the tree walk has pushed are the first entries of the index.
NLocal == Len(resolved)

\* The reachable commits whose tree holds a path.
Containing(p) == { c \in PushHead : p \in commits[c].tree }

\* The first commit the revwalk has yielded whose tree holds a path.
FirstVisited(p) ==
    visited[CHOOSE i \in 1..Len(visited) :
                /\ p \in commits[visited[i]].tree
                /\ \A j \in 1..(i - 1) : p \notin commits[visited[j]].tree]

\* The commits of the latest commit time among those whose tree holds a path.
Newest(p) ==
    { c \in Containing(p) : \A d \in Containing(p) : commits[d].seconds <= commits[c].seconds }

\* The timestamp main derives from a commit (lines 98-100), as it is written
\* to an entry (lines 127-130).
Stamp(c) == Rfc3339(TimeUnix(commits[c]))

\* C1: the revwalk yields the commits latest commit time first; the entry of a
\* path carries the timestamp of the first commit of that order whose tree
\* holds the path, whatever older commits hold it too; and an index that is
\* written has the entry of every candidate whose document parses.
C1_NewestFirstMatch ==
    /\ \A i, j \in 1..Len(visited) :
          i < j => commits[visited[i]].seconds >= commits[visited[j]].seconds
    /\ \A k \in 1..NLocal : index[k].updated = Stamp(FirstVisited(resolved[k].path))
    /\ (pc = "write" \/ (pc = "done" /\ exit = "ok"))
          => \A p \in Candidates \ malformed :
                /\ Containing(p) # {}
                /\ \E k \in 1..NLocal : resolved[k].path = p

\* C1, its case: a file that a newer and an older commit both hold, the older
\* one having introduced it, dated by the newer one.
C1_Witness ==
    /\ exit = "ok"
    /\ \E k \in 1..NLocal : \E c, d \in Containing(resolved[k].path) :
          /\ commits[c].seconds > commits[d].seconds
          /\ d = 1
          /\ index[k].updated = Stamp(c)
          /\ index[k].updated # Stamp(d)

\* A commit introduces a path: its tree holds it and the tree of its parent does not.
Introduces(c, p) ==
    /\ p \in commits[c].tree
    /\ commits[c].parent = 0 \/ p \notin commits[commits[c].parent].tree

\* A tracked file committed exactly once: one reachable commit introduces it
\* and the head still holds it.
CommittedOnce(p) ==
    /\ Cardinality({ c \in PushHead : Introduces(c, p) }) = 1
    /\ p \in commits[Len(commits)].tree

CommittingCommit(p) == CHOOSE c \in PushHead : Introduces(c, p)

EachCommittedOnce == Candidates # {} /\ \A p \in Candidates : CommittedOnce(p)

OneEntryEach ==
    /\ NLocal = Cardinality(Candidates)
    /\ \A p \in Candidates : \E k \in 1..NLocal : resolved[k].path = p

\* One entry for each candidate whose document parses and none for the others.
OneEntryEachParsed ==
    /\ NLocal = Cardinality(Candidates \ malformed)
    /\ \A p \in Candidates \ malformed : \E k \in 1..NLocal : resolved[k].path = p

\* C2 as stated: with every candidate committed exactly once, a successful
\* run has one local entry for each, dated by the commit that committed it.
C2_CommittingCommit ==
    (exit = "ok" /\ EachCommittedOnce) =>
        /\ OneEntryEach
        /\ \A k \in 1..NLocal : index[k].updated = Stamp(CommittingCommit(resolved[k].path))

\* C2 as amended: with every candidate committed exactly once, a successful
\* run has one local entry for each candidate whose document parses and no
\* other, dated by a commit of the latest commit time among the commits whose
\* tree holds the file.
C2_NewestContaining ==
    (exit = "ok" /\ EachCommittedOnce) =>
        /\ OneEntryEachParsed
        /\ \A k \in 1..NLocal :
              index[k].updated \in { Stamp(c) : c \in Newest(resolved[k].path) }

\* C2, its case: two files or more, each committed once, one of them not
\* dated by the commit that committed it.
C2_Witness ==
    /\ exit = "ok"
    /\ EachCommittedOnce
    /\ Cardinality(Candidates) >= 2
    /\ \E k \in 1..NLocal : index[k].updated # Stamp(CommittingCommit(resolved[k].path))

\* C3: the output file exists only after every candidate was found in a tree
\* and parsed; a run with a candidate that no reachable commit holds or that
\* is malformed ends in an error and leaves no output file.
C3_AllOrNothing ==
    /\ out # <<>> =>
          /\ files = {}
          /\ exit = "ok"
          /\ \A p \in Candidates : p \notin malformed /\ Containing(p) # {}
    /\ (pc = "done" /\ \E p \in Candidates : p \in malformed \/ Containing(p) = {}) =>
          /\ exit \in {"error", "panic"}
          /\ out = <<>>

\* C4: no two local entries of an index written have the same url.
C4_UrlUnique ==
    out # <<>> =>
        \A i, j \in 1..NLocal : i # j => out[1][i].url # out[1][j].url

\* C5: after a failed fetch the index is the local entries, each as the tree
\* walk pushed it and in that order, nothing of the catalog is in it, and the
\* run ends well with the index written.
C5_FetchFailure ==
    stdout =>
        /\ schema_store /\ ~net.ok
        /\ pc \in {"write", "done"}
        /\ Len(index) = NLocal
        /\ \A k \in 1..NLocal :
              index[k] = LocalMeta(resolved[k].path, FileName(resolved[k].path),
                                   TimeUnix(commits[resolved[k].commit]))
        /\ pc = "done" => exit = "ok" /\ out = <<index>>

\* C5, its case: the fetch of a catalog with a TOML schema has failed and the
\* two local entries are written.
C5_Witness ==
    /\ stdout
    /\ pc = "done"
    /\ exit = "ok"
    /\ out # <<>> /\ Len(out[1]) = 2
    /\ \E k \in 1..Len(net.schemas) : IsTomlSchema(net.schemas[k])

\* The run has fetched the catalog and written the index.
Fetched == schema_store /\ net.ok /\ pc = "done" /\ exit = "ok"

\* The catalog is one schema with one file match, a glob that ends in .toml.
SingleGlob ==
    /\ Len(net.schemas) = 1
    /\ Len(net.schemas[1].file_match) = 1
    /\ EndsWith(net.schemas[1].file_match[1], DotToml)

TheGlob == TrimEndMatches(net.schemas[1].file_match[1], DotToml)

\* The patterns of the last entry written.
ThePatterns == out[1][Len(out[1])].extra.patterns

\* A glob of plain characters: none that a glob or a regular expression reads
\* as more than itself.
IsLiteralGlob(g) ==
    g # <<>> /\ \A i \in 1..Len(g) : g[i] \notin (RegexMeta \cup {"!", ","})

\* C6: the pattern of a literal glob is a well-formed regular expression that
\* matches the glob followed by .toml at the start of a path and after a
\* separator, and not as the end of a longer component.
C6_LiteralGlob ==
    (Fetched /\ SingleGlob /\ IsLiteralGlob(TheGlob)) =>
        /\ Len(ThePatterns) = 1
        /\ RegexWellFormed(ThePatterns[1])
        /\ RegexIsMatch(ThePatterns[1], TheGlob \o DotToml)
        /\ RegexIsMatch(ThePatterns[1], <<"x", "/">> \o TheGlob \o DotToml)
        /\ ~RegexIsMatch(ThePatterns[1], <<"x">> \o TheGlob \o DotToml)

\* The regular expression of the glob without what the compiler puts around it.
TheBody ==
    LET regex == GlobRegex(GlobNew(TheGlob).tokens)
    IN  SubSeq(regex, Len(RegexPrefix) + 1, Len(regex) - 1)

EscapedDotToml == <<"\\", ".", "t", "o", "m", "l">>

IsSuffixForm(p) == p = TheBody \o EscapedDotToml \o <<"$">>

IsAnchoredForm(p) ==
    p = <<"^", "(", ".", "*", "(", "/", "|", "\\", ")">> \o TheBody \o EscapedDotToml
        \o <<"|">> \o TheBody \o EscapedDotToml \o <<")", "$">>

\* The glob has a wildcard: a token that is no literal character.
HasWildcard(g) == \E k \in 1..Len(GlobNew(g).tokens) : GlobNew(g).tokens[k].t # "Literal"

\* C7 as stated: the suffix form is emitted for the globs with a wildcard and
\* only for them, the anchored form for the others.
C7_WildcardBranch ==
    (Fetched /\ SingleGlob /\ GlobNew(TheGlob).ok) =>
        /\ Len(ThePatterns) = 1
        /\ HasWildcard(TheGlob) => IsSuffixForm(ThePatterns[1])
        /\ ~HasWildcard(TheGlob) => IsAnchoredForm(ThePatterns[1])

\* C7 as amended: the suffix form is emitted for the globs whose text has a
\* star, be it a wildcard, escaped or a member of a class, and only for them;
\* the others, those with a question mark or a class too, get the anchored form.
C7_StarBranch ==
    (Fetched /\ SingleGlob /\ GlobNew(TheGlob).ok) =>
        /\ Len(ThePatterns) = 1
        /\ Contains(TheGlob, "*") => IsSuffixForm(ThePatterns[1])
        /\ ~Contains(TheGlob, "*") => IsAnchoredForm(ThePatterns[1])

\* C7, its case: a glob whose only wildcard is a question mark, written in the
\* anchored form.
C7_Witness ==
    /\ Fetched /\ SingleGlob /\ GlobNew(TheGlob).ok
    /\ Contains(TheGlob, "?") /\ HasWildcard(TheGlob) /\ ~Contains(TheGlob, "*")
    /\ IsAnchoredForm(ThePatterns[1])

\* The file matches of a schema that end in .toml, and those of them whose
\* glob compiles.
TomlMatches(schema) ==
    { j \in 1..Len(schema.file_match) : EndsWith(schema.file_match[j], DotToml) }

Compiling(schema) ==
    { j \in TomlMatches(schema) : GlobNew(TrimEndMatches(schema.file_match[j], DotToml)).ok }

Eligible == { k \in 1..Len(net.schemas) : TomlMatches(net.schemas[k]) # {} }

\* The place of a member among the members of a set of numbers.
Rank(S, x) == Cardinality({ y \in S : y <= x })

\* C8: after a fetch the index has, after the local entries, one entry for
\* each schema of the catalog with a file match that ends in .toml, in the
\* order of the catalog, with one pattern for each such file match whose glob
\* compiles, in their order; a schema none of whose globs compiles has its
\* entry, without patterns; and the run ends well.
C8_OneEntryPerSchema ==
    (schema_store /\ net.ok /\ pc \in {"write", "done"} /\ exit \in {"running", "ok"}) =>
        /\ Len(index) = NLocal + Cardinality(Eligible)
        /\ \A k \in Eligible :
              LET schema == net.schemas[k]
                  meta == index[NLocal + Rank(Eligible, k)]
              IN  /\ meta.url = schema.url
                  /\ meta.title = schema.name
                  /\ meta.extra.authors = Provenance
                  /\ Len(meta.extra.patterns) = Cardinality(Compiling(schema))
                  /\ \A j \in Compiling(schema) :
                        meta.extra.patterns[Rank(Compiling(schema), j)]
                          = Pattern(GlobNew(TrimEndMatches(schema.file_match[j], DotToml)).tokens)
        /\ pc = "done" => exit = "ok" /\ out = <<index>>

\* C8, its case: a catalog of a schema without a .toml file match and of a
\* schema whose only .toml glob does not compile, written as one entry
\* without patterns.
C8_Witness ==
    /\ Fetched
    /\ Len(net.schemas) = 2
    /\ Cardinality(Eligible) = 1
    /\ \E k \in Eligible : Compiling(net.schemas[k]) = {}
    /\ Len(out[1]) = NLocal + 1
    /\ out[1][NLocal + 1].extra.patterns = <<>>

\* The entries pushed for a path.
EntriesOf(p) == { k \in 1..NLocal : resolved[k].path = p }

\* C9: in every state of the walk of the commits and of their trees, a
\* candidate is pending without an entry or not pending with one entry, that
\* of its url, so that the paths that have left the pending set are as many
\* as the entries pushed.
C9_PendingSet ==
    pc \in {"revwalk", "treewalk"} =>
        /\ files \subseteq Candidates
        /\ Len(index) = NLocal
        /\ NLocal = Cardinality(Candidates \ files)
        /\ \A k \in 1..NLocal :
              /\ resolved[k].path \in Candidates
              /\ index[k].url = LocalUrl(opt_url, FileName(resolved[k].path))
        /\ \A p \in Candidates :
              \/ p \in files /\ EntriesOf(p) = {}
              \/ p \notin files /\ Cardinality(EntriesOf(p)) = 1

\* The last part of C9, which holds: no step of the walk changes the pending
\* set or the local entries once the pending set is empty.
EmptyIsFinal ==
    [][(pc \in {"revwalk", "treewalk"} /\ files = {}) =>
            (files' = files /\ resolved' = resolved
             /\ SubSeq(index', 1, NLocal) = SubSeq(index, 1, NLocal))]_vars

\* The order of two texts of the same length by the characters of a timestamp.
StampChars == <<"+", "-", "0", "1", "2", "3", "4", "5", "6", "7", "8", "9", ":", "T">>

CharRank(c) == CHOOSE k \in 1..Len(StampChars) : StampChars[k] = c

Earlier(a, b) ==
    \E i \in 1..Len(a) :
        /\ CharRank(a[i]) < CharRank(b[i])
        /\ \A j \in 1..(i - 1) : a[j] = b[j]

\* C10: the updated value is the instant of the commit: the entries of two
\* commits of the same seconds since the epoch have the same value, and the
\* entry of a commit of more seconds has no earlier value than that of a
\* commit of fewer.
C10_Instant ==
    \A i, j \in 1..NLocal :
        LET c == commits[resolved[i].commit]
            d == commits[resolved[j].commit]
        IN  /\ c.seconds = d.seconds => index[i].updated = index[j].updated
            /\ c.seconds > d.seconds => ~Earlier(index[i].updated, index[j].updated)

====
